---- MODULE Spec2Model ----
(***************************************************************************)
(* DeepInfraEmbeddingModel (llama_index/embeddings/deepinfra/base.py):     *)
(* a client that prefixes its inputs, chunks them into batches of at most  *)
(* MAX_BATCH_SIZE strings, posts one request per batch (requests on the    *)
(* blocking path, aiohttp on the non-blocking path) and concatenates the   *)
(* lists of vectors it receives.                                           *)
(*                                                                         *)
(* Python values are encoded as follows: a str is a TLA+ string, a list a  *)
(* sequence, Optional[str] is None (<<>>) or Some(s) (<<s>>), os.environ   *)
(* is a function from variable names to strings, a JSON object is a        *)
(* function from its keys.  A vector is opaque to the client: the remote   *)
(* model's vector for the string s is written Vector(s).                   *)
(***************************************************************************)
EXTENDS Integers, Sequences, FiniteSets, TLC

VARIABLES
    environ,         \* os.environ at construction
    arg_api_token,   \* the api_token argument __init__ was called with
    model_id,        \* self._model_id
    normalize,       \* self._normalize
    api_token,       \* self._api_token
    query_prefix,    \* self._query_prefix
    text_prefix,     \* self._text_prefix
    MAX_BATCH_SIZE,  \* the module global read by _chunk (1024 in base.py line 21;
                     \* here any value in 1..MaxBatchSize, fixed at start)
    task,            \* the invocations of the client's methods, one per caller slot
    inflight,        \* the requests posted and not yet answered
    stub,            \* the answers a deterministic stub transport has given so far
    first_call       \* the address and the credentials of the client's first request

vars == <<environ, arg_api_token, model_id, normalize, api_token, query_prefix,
          text_prefix, MAX_BATCH_SIZE, task, inflight, stub, first_call>>

config == <<model_id, normalize, api_token, query_prefix, text_prefix>>

-----------------------------------------------------------------------------
(* Bounds of the model.                                                    *)

MaxLen == 5

MaxBatchSize == 2

MaxFaults == 2

MaxConcLen == 2

MaxConcFaults == 1

-----------------------------------------------------------------------------
(* Module constants, base.py lines 14-21.                                  *)

INFERENCE_URL == "https://api.deepinfra.com/v1/inference"

ENV_VARIABLE == "DEEPINFRA_API_TOKEN"

DEFAULT_MODEL_ID == "sentence-transformers/clip-ViT-B-32"

-----------------------------------------------------------------------------
(* Python values.                                                          *)

None == <<>>

Some(s) == <<s>>

Min(a, b) == IF a < b THEN a ELSE b

\* str(v) as an f-string formats an Optional[str]: None prints as "None".
Format(v) == IF v = None THEN "None" ELSE v[1]

\* items[a:b] for 0 <= a <= b: the elements at 0-based positions a .. b-1,
\* cut at the end of the list.
Slice(items, a, b) == SubSeq(items, a + 1, Min(b, Len(items)))

\* range(0, n, step) as a sequence: 0, step, 2*step, ... below n.
Range(n, step) == [j \in 1..((n + step - 1) \div step) |-> (j - 1) * step]

\* os.getenv(key, default): the variable's value when it is set, else default.
os_getenv(key, default) == IF key \in DOMAIN environ THEN Some(environ[key]) ELSE default

-----------------------------------------------------------------------------
(* The methods of the class.                                               *)

Methods == {"_get_query_embedding", "_aget_query_embedding",
            "_get_query_embeddings", "_aget_query_embeddings",
            "_get_text_embedding", "_aget_text_embedding",
            "_get_text_embeddings", "_aget_text_embeddings"}

\* The methods that run _apost (the others run _post).
IsAsync(m) == m \in {"_aget_query_embedding", "_aget_query_embeddings",
                     "_aget_text_embedding", "_aget_text_embeddings"}

\* The methods that apply _add_query_prefix (the others apply _add_text_prefix).
IsQuery(m) == m \in {"_get_query_embedding", "_aget_query_embedding",
                     "_get_query_embeddings", "_aget_query_embeddings"}

\* The methods that take one string, wrap it in a list and return element [0].
IsSingle(m) == m \in {"_get_query_embedding", "_aget_query_embedding",
                      "_get_text_embedding", "_aget_text_embedding"}

get_url == INFERENCE_URL \o "/" \o model_id

\* _add_query_prefix, after the variant that adds the text prefix.
_add_query_prefix_text(queries) == [j \in 1..Len(queries) |-> text_prefix \o queries[j]]

_add_query_prefix(queries) == [j \in 1..Len(queries) |-> query_prefix \o queries[j]]

_add_text_prefix(texts) == [j \in 1..Len(texts) |-> text_prefix \o texts[j]]

\* _chunk, after the variant that always gives a first batch, an empty one
\* for the empty list.
_chunk_never_empty(items) ==
    LET starts == IF items = <<>> THEN <<0>> ELSE Range(Len(items), MAX_BATCH_SIZE)
    IN  [j \in 1..Len(starts) |-> Slice(items, starts[j], starts[j] + MAX_BATCH_SIZE)]

\* _chunk, after the variant that steps over the full batches only and
\* so loses a shorter last batch.
_chunk_full_only(items) ==
    LET starts == Range(Len(items) - (Len(items) % MAX_BATCH_SIZE), MAX_BATCH_SIZE)
    IN  [j \in 1..Len(starts) |-> Slice(items, starts[j], starts[j] + MAX_BATCH_SIZE)]

_chunk(items) ==
    LET starts == Range(Len(items), MAX_BATCH_SIZE)
    IN  [j \in 1..Len(starts) |-> Slice(items, starts[j], starts[j] + MAX_BATCH_SIZE)]

\* The request requests.post / session.post builds for one chunk.
Request(url, chunk) ==
    [url     |-> url,
     json    |-> [inputs |-> chunk],
     headers |-> [Authorization |-> "Bearer " \o Format(api_token),
                  ContentType   |-> "application/json"]]

-----------------------------------------------------------------------------
(* The remote endpoint and the two HTTP libraries.                         *)

\* The vector the remote model computes for the string s.
Vector(s) == <<"vec", s>>

\* The embeddings list aligned by position with the inputs of a request.
Aligned(chunk) == [j \in 1..Len(chunk) |-> Vector(chunk[j])]

\* The list with its last vector missing (a list shorter than its batch).
Short(chunk) == [j \in 1..(Len(chunk) - 1) |-> Vector(chunk[j])]

\* The list with one vector too many (a list longer than its batch).
Long(chunk) == Aligned(chunk) \o <<Vector("")>>

NoResponse == [connected |-> FALSE, status_code |-> 0, content_type |-> "",
               is_json |-> FALSE, body |-> [error |-> "connection failed"]]

HttpResponse(status, ctype, isjson, body) ==
    [connected |-> TRUE, status_code |-> status, content_type |-> ctype,
     is_json |-> isjson, body |-> body]

\* The answer the interface expects: status 200 and a JSON body whose
\* embeddings list is aligned with the inputs sent.
WellFormed(chunk) ==
    HttpResponse(200, "application/json", TRUE, [embeddings |-> Aligned(chunk)])

\* What a transport can answer to a request carrying chunk.
Responses(chunk) ==
    { NoResponse,
      WellFormed(chunk),
      HttpResponse(200, "application/json", TRUE, [embeddings |-> Short(chunk)]),
      HttpResponse(200, "application/json", TRUE, [embeddings |-> Long(chunk)]),
      HttpResponse(200, "application/json", TRUE, [detail |-> "no embeddings"]),
      HttpResponse(200, "text/plain", FALSE, [text |-> "not json"]),
      HttpResponse(200, "text/plain", TRUE, [embeddings |-> Aligned(chunk)]),
      HttpResponse(500, "application/json", TRUE, [embeddings |-> Aligned(chunk)]),
      HttpResponse(500, "application/json", TRUE, [detail |-> "server error"]),
      HttpResponse(500, "text/plain", FALSE, [text |-> "server error"]) }

\* raise_for_status, after the variant that lets every status through.
raise_for_status_never(r) == ""

\* requests.Response.raise_for_status: HTTPError for a 4xx or 5xx status.
raise_for_status(r) == IF 400 <= r.status_code /\ r.status_code < 600 THEN "HTTPError" ELSE ""

\* requests.Response.json: parses the body whatever its content type.
requests_json(r) == IF r.is_json THEN "" ELSE "JSONDecodeError"

\* aiohttp.ClientResponse.json: checks the content type, then parses the body.
aiohttp_json(r) ==
    IF r.content_type # "application/json" THEN "ContentTypeError"
    ELSE IF r.is_json THEN "" ELSE "JSONDecodeError"

\* response["embeddings"] on the parsed body.
GetEmbeddings(r) == IF "embeddings" \in DOMAIN r.body THEN "" ELSE "KeyError"

\* The exception lines 83-94 of _post raise on the answer r ("" for none).
PostError(r) ==
    IF ~r.connected THEN "ConnectionError"
    ELSE IF raise_for_status(r) # "" THEN raise_for_status(r)
    ELSE IF requests_json(r) # "" THEN requests_json(r)
    ELSE GetEmbeddings(r)

\* The exception lines 118-130 of _apost raise on the answer r ("" for none).
APostError(r) ==
    IF ~r.connected THEN "ClientConnectionError"
    ELSE IF aiohttp_json(r) # "" THEN aiohttp_json(r)
    ELSE GetEmbeddings(r)

\* embeddings.extend(new): the list that appends new at the end goes first
\* in this file, as the variant that puts new in front.
ExtendFront(embeddings, new) == new \o embeddings

\* embeddings.extend(new)
Extend(embeddings, new) == embeddings \o new

\* The element [0] a single-item method returns, after the variant
\* that takes the last element, [-1].
LastItem(embeddings) == embeddings[Len(embeddings)]

FirstItem(embeddings) == embeddings[1]

-----------------------------------------------------------------------------
(* The callers.                                                            *)

Tasks == {"t1", "t2"}

Alphabet == <<"a", "b", "Hello, world!">>

Corpus == [j \in 1..MaxLen |-> Alphabet[((j - 1) % Len(Alphabet)) + 1]]

\* The lists a caller passes: the contiguous pieces of Corpus, the empty list included.
Lists == {SubSeq(Corpus, a, b) : a \in 1..(MaxLen + 1), b \in 0..MaxLen}

\* The argument list of a method: one string wrapped in a list, or a list.
InputsOf(m) == IF IsSingle(m) THEN {<<Alphabet[j]>> : j \in 1..Len(Alphabet)} ELSE Lists

IdleTask ==
    [pc |-> "idle", method |-> "", inputs |-> <<>>, data |-> <<>>, url |-> "",
     chunked_data |-> <<>>, i |-> 0, embeddings |-> <<>>, result |-> <<>>,
     error |-> "", sent |-> <<>>, got |-> <<>>, faults |-> 0]

Active(t) == task[t].pc \in {"loop", "await"}

\* for chunk in chunked_data: the chunk of the iteration under way, after
\* the variant that walks the list from its end.
NextChunkReversed(t) == task[t].chunked_data[Len(task[t].chunked_data) - task[t].i]

NextChunk(t) == task[t].chunked_data[task[t].i + 1]

-----------------------------------------------------------------------------
(* The state after construction, __init__ lines 60-64.                     *)

Init ==
    /\ environ \in {[v \in {} |-> ""], [v \in {ENV_VARIABLE} |-> "env-token"]}
    /\ arg_api_token \in {None, Some("arg-token")}
    /\ model_id = DEFAULT_MODEL_ID
    /\ normalize = FALSE
    /\ api_token = os_getenv(ENV_VARIABLE, arg_api_token)
    /\ query_prefix \in {"", "Q: "}
    /\ text_prefix \in {"", "T: "}
    /\ MAX_BATCH_SIZE \in 1..MaxBatchSize
    /\ task = [t \in Tasks |-> IdleTask]
    /\ inflight = {}
    /\ stub = {}
    /\ first_call = None

-----------------------------------------------------------------------------
(* The steps of an invocation.                                             *)

\* Call, after the variant whose _add_*_prefix writes the prefixed strings
\* back into the caller's list instead of building a new one.
CallPrefixingInPlace(t, m, inputs) ==
    /\ task[t].pc = "idle"
    /\ LET data == IF IsQuery(m) THEN _add_query_prefix(inputs)
                                 ELSE _add_text_prefix(inputs)
       IN  task' = [task EXCEPT ![t] =
                       [IdleTask EXCEPT !.pc = "loop", !.method = m, !.inputs = data,
                                        !.data = data, !.url = get_url,
                                        !.chunked_data = _chunk(data)]]
    /\ UNCHANGED <<environ, arg_api_token, config, MAX_BATCH_SIZE, first_call, inflight>>

\* A method is called with inputs: the prefix is added, then _post / _apost
\* runs up to its loop (lines 79-81, 114-116).
Call(t, m, inputs) ==
    /\ task[t].pc = "idle"
    /\ LET data == IF IsQuery(m) THEN _add_query_prefix(inputs)
                                 ELSE _add_text_prefix(inputs)
       IN  task' = [task EXCEPT ![t] =
                       [IdleTask EXCEPT !.pc = "loop", !.method = m, !.inputs = inputs,
                                        !.data = data, !.url = get_url,
                                        !.chunked_data = _chunk(data)]]
    /\ UNCHANGED <<environ, arg_api_token, config, MAX_BATCH_SIZE, first_call, inflight>>

\* Where a request goes and as whom: its URL and its Authorization header.
Addressing(req) == [url |-> req.url, Authorization |-> req.headers.Authorization]

\* Post, after the variant that posts the chunks without waiting for the
\* answers (a fan-out over the batches).
PostWithoutAwait(t) ==
    /\ task[t].pc \in {"loop", "await"}
    /\ Len(task[t].sent) < Len(task[t].chunked_data)
    /\ LET chunk == task[t].chunked_data[Len(task[t].sent) + 1]
           req   == Request(task[t].url, chunk)
       IN  /\ inflight' = inflight \cup
                    {[task |-> t, n |-> Len(task[t].sent) + 1, request |-> req]}
           /\ task' = [task EXCEPT ![t].pc = "await",
                                   ![t].sent = Append(@, req)]
           /\ first_call' = IF first_call = None THEN Some(Addressing(req)) ELSE first_call
    /\ UNCHANGED <<environ, arg_api_token, config, MAX_BATCH_SIZE>>

\* The loop takes the next chunk and posts it (lines 82-92, 117-128).
Post(t) ==
    /\ task[t].pc = "loop"
    /\ task[t].i < Len(task[t].chunked_data)
    /\ LET chunk == NextChunk(t)
           req   == Request(task[t].url, chunk)
       IN  /\ inflight' = inflight \cup
                    {[task |-> t, n |-> Len(task[t].sent) + 1, request |-> req]}
           /\ task' = [task EXCEPT ![t].pc = "await",
                                   ![t].sent = Append(@, req)]
           /\ first_call' = IF first_call = None THEN Some(Addressing(req)) ELSE first_call
    /\ UNCHANGED <<environ, arg_api_token, config, MAX_BATCH_SIZE>>

\* Receive, after the variant that posts the batch again when its call failed.
ReceiveRetrying(t, r) ==
    /\ task[t].pc = "await"
    /\ LET err == IF IsAsync(task[t].method) THEN APostError(r) ELSE PostError(r)
           chunk == NextChunk(t)
       IN  /\ inflight' = {f \in inflight : ~(f.task = t /\ f.n = Len(task[t].got) + 1)}
           /\ task' = [task EXCEPT
                  ![t].got = Append(@, r),
                  ![t].faults = IF r = WellFormed(chunk) THEN @ ELSE @ + 1,
                  ![t].pc = "loop",
                  ![t].i = IF err = "" THEN @ + 1 ELSE @,
                  ![t].embeddings = IF err = "" THEN Extend(@, r.body.embeddings) ELSE @]
    /\ UNCHANGED <<environ, arg_api_token, config, MAX_BATCH_SIZE, first_call>>

\* Receive, after the variant that keeps the vectors in one list shared by
\* the invocations under way (an accumulator on self), so that an answer
\* lands in all of them.
ReceiveIntoShared(t, r) ==
    /\ task[t].pc = "await"
    /\ LET err == IF IsAsync(task[t].method) THEN APostError(r) ELSE PostError(r)
           chunk == NextChunk(t)
       IN  /\ inflight' = {f \in inflight : ~(f.task = t /\ f.n = Len(task[t].got) + 1)}
           /\ task' = [u \in Tasks |->
                  IF u = t
                  THEN [task[t] EXCEPT
                          !.got = Append(@, r),
                          !.faults = IF r = WellFormed(chunk) THEN @ ELSE @ + 1,
                          !.pc = IF err = "" THEN "loop" ELSE "raised",
                          !.error = err,
                          !.i = IF err = "" THEN @ + 1 ELSE @,
                          !.embeddings = IF err = "" THEN Extend(@, r.body.embeddings) ELSE @]
                  ELSE IF Active(u) /\ err = ""
                       THEN [task[u] EXCEPT !.embeddings = Extend(@, r.body.embeddings)]
                       ELSE task[u]]
    /\ UNCHANGED <<environ, arg_api_token, config, MAX_BATCH_SIZE, first_call>>

\* Receive, after the variant that checks the length of the embeddings list
\* against the batch and raises when they differ.
ReceiveValidating(t, r) ==
    /\ task[t].pc = "await"
    /\ LET chunk == NextChunk(t)
           err0  == IF IsAsync(task[t].method) THEN APostError(r) ELSE PostError(r)
           err   == IF err0 = "" /\ Len(r.body.embeddings) # Len(chunk)
                    THEN "ValueError" ELSE err0
       IN  /\ inflight' = {f \in inflight : ~(f.task = t /\ f.n = Len(task[t].got) + 1)}
           /\ task' = [task EXCEPT
                  ![t].got = Append(@, r),
                  ![t].faults = IF r = WellFormed(chunk) THEN @ ELSE @ + 1,
                  ![t].pc = IF err = "" THEN "loop" ELSE "raised",
                  ![t].error = err,
                  ![t].i = IF err = "" THEN @ + 1 ELSE @,
                  ![t].embeddings = IF err = "" THEN Extend(@, r.body.embeddings) ELSE @]
    /\ UNCHANGED <<environ, arg_api_token, config, MAX_BATCH_SIZE, first_call>>

\* The answer r to the posted request arrives and the loop body ends
\* (lines 93-94, 129-130): an exception leaves the method, else the
\* embeddings of the answer are appended.
Receive(t, r) ==
    /\ task[t].pc = "await"
    /\ LET err == IF IsAsync(task[t].method) THEN APostError(r) ELSE PostError(r)
           chunk == NextChunk(t)
       IN  /\ inflight' = {f \in inflight : ~(f.task = t /\ f.n = Len(task[t].got) + 1)}
           /\ task' = [task EXCEPT
                  ![t].got = Append(@, r),
                  ![t].faults = IF r = WellFormed(chunk) THEN @ ELSE @ + 1,
                  ![t].pc = IF err = "" THEN "loop" ELSE "raised",
                  ![t].error = err,
                  ![t].i = IF err = "" THEN @ + 1 ELSE @,
                  ![t].embeddings = IF err = "" THEN Extend(@, r.body.embeddings) ELSE @]
    /\ UNCHANGED <<environ, arg_api_token, config, MAX_BATCH_SIZE, first_call>>

\* The loop is over: _post / _apost return embeddings (lines 95, 131), and a
\* single-item method returns its element [0] (lines 137, 144, 162, 169).
Return(t) ==
    /\ task[t].pc = "loop"
    /\ task[t].i = Len(task[t].chunked_data)
    /\ task' = [task EXCEPT
           ![t].pc = IF IsSingle(task[t].method) /\ task[t].embeddings = <<>>
                     THEN "raised" ELSE "returned",
           ![t].error = IF IsSingle(task[t].method) /\ task[t].embeddings = <<>>
                        THEN "IndexError" ELSE "",
           ![t].result = IF ~IsSingle(task[t].method) THEN task[t].embeddings
                         ELSE IF task[t].embeddings = <<>> THEN <<>>
                         ELSE FirstItem(task[t].embeddings)]
    /\ UNCHANGED <<environ, arg_api_token, config, MAX_BATCH_SIZE, first_call, inflight>>

\* The caller has taken the value or the exception: the invocation is gone.
Finish(t) ==
    /\ task[t].pc \in {"returned", "raised"}
    /\ task' = [task EXCEPT ![t] = IdleTask]
    /\ UNCHANGED <<environ, arg_api_token, config, MAX_BATCH_SIZE, first_call, inflight>>

\* The answers the transport may give to the request t awaits: any answer,
\* as long as the invocation met fewer than MaxFaults ill-formed ones.
Answers(t) ==
    LET chunk == NextChunk(t)
    IN  {r \in Responses(chunk) : r = WellFormed(chunk) \/ task[t].faults < MaxFaults}

-----------------------------------------------------------------------------
(* One caller, one invocation at a time, any transport.                    *)

Next ==
    \/ \E t \in Tasks, m \in Methods :
          /\ \A u \in Tasks : task[u].pc = "idle"
          /\ t = "t1"
          /\ \E inputs \in InputsOf(m) : Call(t, m, inputs)
          /\ UNCHANGED stub
    \/ \E t \in Tasks : Post(t) /\ UNCHANGED stub
    \/ \E t \in Tasks : task[t].pc = "await" /\ \E r \in Answers(t) : Receive(t, r) /\ UNCHANGED stub
    \/ \E t \in Tasks : Return(t) /\ UNCHANGED stub
    \/ \E t \in Tasks : Finish(t) /\ UNCHANGED stub

Spec == Init /\ [][Next]_vars

-----------------------------------------------------------------------------
(* Vocabulary of the properties.                                           *)

\* ceil(l / m) for m >= 1: the least n with n * m >= l.
CeilDiv(l, m) == CHOOSE n \in 0..l : n * m >= l /\ (n = 0 \/ (n - 1) * m < l)

RECURSIVE Flatten(_)
\* The concatenation, in order, of the lists of a list.
Flatten(lists) == IF lists = <<>> THEN <<>> ELSE Head(lists) \o Flatten(Tail(lists))

\* The prefix the kind of method m calls for.
Prefix(m) == IF IsQuery(m) THEN query_prefix ELSE text_prefix

\* The inputs of invocation t after prefixing, computed from the caller's list.
Prefixed(t) == [j \in 1..Len(task[t].inputs) |-> Prefix(task[t].method) \o task[t].inputs[j]]

\* The batch the k-th call of an invocation on the prefixed list p must carry:
\* positions (k-1)*M .. min(k*M, L)-1, counted from 0.
Batch(p, k) ==
    [j \in 1..(Min(k * MAX_BATCH_SIZE, Len(p)) - (k - 1) * MAX_BATCH_SIZE)
        |-> p[(k - 1) * MAX_BATCH_SIZE + j]]

\* Every call of invocation t so far got the well-formed answer to what it sent.
AllWellFormed(t) ==
    \A k \in 1..Len(task[t].got) : task[t].got[k] = WellFormed(task[t].sent[k].json.inputs)

-----------------------------------------------------------------------------
(* C7: for a list of length L and MAX_BATCH_SIZE = M >= 1, _chunk gives    *)
(* ceil(L/M) batches (none for the empty list), each non-empty and of      *)
(* length M except possibly the last, of length 1..M, and the batches      *)
(* concatenated in order are the list itself.                              *)
ChunkPartitions ==
    \A t \in Tasks : task[t].pc # "idle" =>
        LET items == task[t].data
            c     == task[t].chunked_data
        IN  /\ Len(c) = CeilDiv(Len(items), MAX_BATCH_SIZE)
            /\ \A k \in 1..Len(c) :
                  /\ Len(c[k]) >= 1
                  /\ Len(c[k]) <= MAX_BATCH_SIZE
                  /\ k < Len(c) => Len(c[k]) = MAX_BATCH_SIZE
            /\ Flatten(c) = items

\* Five strings chunked by two: three batches, the last of one string.
ChunkPartitionsWitness ==
    \E t \in Tasks :
        /\ task[t].pc # "idle"
        /\ MAX_BATCH_SIZE = 2
        /\ Len(task[t].data) = 5
        /\ Len(task[t].chunked_data) = 3
        /\ Len(task[t].chunked_data[3]) = 1

\* The empty list chunked: no batch at all.
ChunkEmptyWitness ==
    \E t \in Tasks : task[t].pc # "idle" /\ task[t].data = <<>> /\ task[t].chunked_data = <<>>

-----------------------------------------------------------------------------
(* C1: on both paths, when every batch call of a list method got the       *)
(* well-formed answer, the list returned is as long as the caller's list   *)
(* and its i-th vector is the remote's vector for the i-th prefixed input. *)
ResultAlignedWithInputs ==
    \A t \in Tasks :
        (task[t].pc = "returned" /\ ~IsSingle(task[t].method) /\ AllWellFormed(t)) =>
            /\ Len(task[t].result) = Len(task[t].inputs)
            /\ \A j \in 1..Len(task[t].inputs) :
                  task[t].result[j] = Vector(Prefix(task[t].method) \o task[t].inputs[j])

\* A non-blocking list call on five inputs in three batches has returned.
ResultAlignedWitness ==
    \E t \in Tasks :
        /\ task[t].pc = "returned"
        /\ task[t].method = "_aget_query_embeddings"
        /\ AllWellFormed(t)
        /\ query_prefix = "Q: "
        /\ Len(task[t].inputs) = 5
        /\ Len(task[t].got) = 3

-----------------------------------------------------------------------------
(* C2: the k-th call of an invocation carries the prefixed inputs at       *)
(* positions (k-1)*M .. min(k*M, L)-1, the calls are issued in increasing  *)
(* k, each batch once, and an invocation that ends without an exception    *)
(* has issued exactly ceil(L/M) calls.                                     *)
CallsFollowBatches ==
    \A t \in Tasks : task[t].pc # "idle" =>
        LET p == Prefixed(t)
            n == CeilDiv(Len(p), MAX_BATCH_SIZE)
        IN  /\ Len(task[t].sent) <= n
            /\ \A k \in 1..Len(task[t].sent) : task[t].sent[k].json.inputs = Batch(p, k)
            /\ task[t].pc = "returned" => Len(task[t].sent) = n

\* M = 2 and L = 5: three calls of sizes 2, 2, 1.
CallsFollowBatchesWitness ==
    \E t \in Tasks :
        /\ task[t].pc = "returned"
        /\ MAX_BATCH_SIZE = 2
        /\ Len(task[t].inputs) = 5
        /\ Len(task[t].sent) = 3
        /\ Len(task[t].sent[1].json.inputs) = 2
        /\ Len(task[t].sent[2].json.inputs) = 2
        /\ Len(task[t].sent[3].json.inputs) = 1

-----------------------------------------------------------------------------
(* Failures.                                                               *)

\* A batch call that failed: no connection, or a status that is not 2xx.
Failed(r) == ~r.connected \/ ~(200 <= r.status_code /\ r.status_code < 300)

\* The requests of invocation t that are in flight.
InFlightOf(t) == {f \in inflight : f.task = t}

\* Invocation t ended with an exception at its k-th call: nothing is
\* returned, the k-th answer is the last one received, the k calls issued
\* are the first k batches, one each, and nothing of t is in flight.
AbortedAt(t, k) ==
    /\ task[t].pc = "raised"
    /\ task[t].error # ""
    /\ task[t].result = <<>>
    /\ Len(task[t].got) = k
    /\ Len(task[t].sent) = k
    /\ \A j \in 1..k : task[t].sent[j].json.inputs = task[t].chunked_data[j]
    /\ InFlightOf(t) = {}

NonBlockingStatusAborts ==
    \A t \in Tasks : (task[t].pc # "idle" /\ IsAsync(task[t].method)) =>
        \A k \in 1..Len(task[t].got) :
            (task[t].got[k].connected /\ Failed(task[t].got[k])) => AbortedAt(t, k)

-----------------------------------------------------------------------------
(* C6: an invocation has at most one request in flight, on both paths: it  *)
(* awaits exactly while that request is out, and the call for batch k+1    *)
(* goes out only when the answers to batches 1..k have been received and   *)
(* their embeddings appended.                                              *)
OneRequestInFlight ==
    \A t \in Tasks :
        /\ Cardinality(InFlightOf(t)) <= 1
        /\ (task[t].pc = "await") <=> (InFlightOf(t) # {})
        /\ \A f \in InFlightOf(t) :
              /\ f.n = Len(task[t].got) + 1
              /\ f.n = Len(task[t].sent)
              /\ task[t].i = Len(task[t].got)
              /\ task[t].embeddings =
                    Flatten([k \in 1..Len(task[t].got) |-> task[t].got[k].body.embeddings])

\* The third call of a non-blocking invocation is in flight.
OneRequestInFlightWitness ==
    \E t \in Tasks :
        /\ IsAsync(task[t].method)
        /\ task[t].pc = "await"
        /\ Len(task[t].got) = 2
        /\ Cardinality(InFlightOf(t)) = 1

-----------------------------------------------------------------------------
(* C8: every string an invocation submits is the prefix of its kind        *)
(* followed by the caller's input at the same position: the query prefix   *)
(* for the query methods, the text prefix for the text methods, never the  *)
(* other one, on both paths; an empty prefix leaves the input as it is.    *)
SubmittedArePrefixed ==
    \A t \in Tasks : task[t].pc # "idle" =>
        LET m    == task[t].method
            subm == Flatten([k \in 1..Len(task[t].sent) |-> task[t].sent[k].json.inputs])
        IN  /\ Len(subm) <= Len(task[t].inputs)
            /\ \A p \in 1..Len(subm) :
                  /\ IsQuery(m) => subm[p] = query_prefix \o task[t].inputs[p]
                  /\ ~IsQuery(m) => subm[p] = text_prefix \o task[t].inputs[p]
                  /\ (IsQuery(m) /\ query_prefix # text_prefix) =>
                         subm[p] # text_prefix \o task[t].inputs[p]
                  /\ (~IsQuery(m) /\ query_prefix # text_prefix) =>
                         subm[p] # query_prefix \o task[t].inputs[p]
                  /\ Prefix(m) = "" => subm[p] = task[t].inputs[p]

\* Query prefix "Q: " and inputs ["a", "b"]: ["Q: a", "Q: b"] is submitted.
SubmittedArePrefixedWitness ==
    \E t \in Tasks :
        /\ task[t].method = "_get_query_embeddings"
        /\ query_prefix = "Q: "
        /\ text_prefix = "T: "
        /\ task[t].inputs = <<"a", "b">>
        /\ Len(task[t].sent) = 1
        /\ task[t].sent[1].json.inputs = <<"Q: a", "Q: b">>

-----------------------------------------------------------------------------
\* The token the documented order gives: the explicit argument, else the
\* environment variable, else none.
ExplicitThenEnvironment ==
    IF arg_api_token # None THEN arg_api_token
    ELSE IF ENV_VARIABLE \in DOMAIN environ THEN Some(environ[ENV_VARIABLE])
    ELSE None

(* C9: the token the client sends is resolved at construction in the order *)
(* explicit argument, environment variable, absent: an explicit token is   *)
(* the one sent also when DEEPINFRA_API_TOKEN is set.                      *)
TokenSentIsExplicitFirst ==
    \A t \in Tasks : \A k \in 1..Len(task[t].sent) :
        task[t].sent[k].headers.Authorization = "Bearer " \o Format(ExplicitThenEnvironment)

-----------------------------------------------------------------------------
(* C10: a single-item method on a text issues exactly one call, carrying   *)
(* the one-element batch [prefix + text], and returns the first vector of  *)
(* that call's answer, the element [0] of what the list method gives for   *)
(* [text]: the remote's vector for prefix + text when the answer is        *)
(* well formed.                                                            *)
SingleItemIsFirstOfOneCall ==
    \A t \in Tasks : (task[t].pc # "idle" /\ IsSingle(task[t].method)) =>
        LET one == <<Prefix(task[t].method) \o task[t].inputs[1]>>
        IN  /\ Len(task[t].inputs) = 1
            /\ Len(task[t].sent) <= 1
            /\ \A k \in 1..Len(task[t].sent) : task[t].sent[k].json.inputs = one
            /\ task[t].pc = "returned" =>
                  /\ Len(task[t].sent) = 1
                  /\ Len(task[t].got) = 1
                  /\ task[t].result = task[t].got[1].body.embeddings[1]
                  /\ AllWellFormed(t) => task[t].result = Vector(one[1])

\* _get_text_embedding("Hello, world!") has returned the vector of the answer.
SingleItemWitness ==
    \E t \in Tasks :
        /\ task[t].pc = "returned"
        /\ task[t].method = "_get_text_embedding"
        /\ task[t].inputs = <<"Hello, world!">>
        /\ AllWellFormed(t)
        /\ task[t].result = Vector(text_prefix \o "Hello, world!")

-----------------------------------------------------------------------------
(* The two paths against one deterministic stub transport: a caller runs a *)
(* blocking method, then its non-blocking twin on the same inputs, and the *)
(* transport gives a request it has answered before the same answer.       *)

\* The non-blocking method of the same kind and arity as the blocking m.
Twin(m) ==
    CASE m = "_get_query_embedding"  -> "_aget_query_embedding"
      [] m = "_get_query_embeddings" -> "_aget_query_embeddings"
      [] m = "_get_text_embedding"   -> "_aget_text_embedding"
      [] m = "_get_text_embeddings"  -> "_aget_text_embeddings"

Done(t) == task[t].pc \in {"returned", "raised"}

\* The request invocation t waits on.
Awaited(t) == task[t].sent[Len(task[t].sent)]

\* The stub's answers to the request t waits on: the one it gave before to
\* the same request, if any.
StubAnswers(t) ==
    LET known == {e \in stub : e.request = Awaited(t)}
    IN  IF known # {} THEN {e.response : e \in known} ELSE Answers(t)

NextEquiv ==
    \/ \E m \in {n \in Methods : ~IsAsync(n)} :
          /\ \A u \in Tasks : task[u].pc = "idle"
          /\ \E inputs \in InputsOf(m) : Call("t1", m, inputs)
          /\ UNCHANGED stub
    \/ /\ Done("t1")
       /\ Call("t2", Twin(task["t1"].method), task["t1"].inputs)
       /\ UNCHANGED stub
    \/ \E t \in Tasks : Post(t) /\ UNCHANGED stub
    \/ \E t \in Tasks :
          /\ task[t].pc = "await"
          /\ \E r \in StubAnswers(t) :
                /\ Receive(t, r)
                /\ stub' = stub \cup {[request |-> Awaited(t), response |-> r]}
    \/ \E t \in Tasks : Return(t) /\ UNCHANGED stub

SpecEquiv == Init /\ [][NextEquiv]_vars

(* C5: with the same configuration, the same inputs and the same           *)
(* deterministic stub transport, _post and _apost issue the same sequence  *)
(* of calls and end alike: with the identical list, or with an error both. *)
PathsAgree ==
    (Done("t1") /\ Done("t2")) =>
        /\ task["t1"].sent = task["t2"].sent
        /\ task["t1"].pc = task["t2"].pc
        /\ task["t1"].result = task["t2"].result


-----------------------------------------------------------------------------
\* A successful answer that holds an embeddings list: status 2xx and a JSON
\* body, served as JSON, with the "embeddings" key.
SuccessWithList(r) ==
    /\ r.connected
    /\ 200 <= r.status_code /\ r.status_code < 300
    /\ r.content_type = "application/json"
    /\ r.is_json
    /\ "embeddings" \in DOMAIN r.body

\* The k-th answer to invocation t is successful and its embeddings list
\* is not as long as the batch sent.
Mismatched(t, k) ==
    /\ SuccessWithList(task[t].got[k])
    /\ Len(task[t].got[k].body.embeddings) # Len(task[t].sent[k].json.inputs)

\* The lists of vectors invocation t has received, concatenated in order.
Received(t) == Flatten([k \in 1..Len(task[t].got) |-> task[t].got[k].body.embeddings])

(* C11: a successful answer whose embeddings list is not as long as the    *)
(* batch is not detected by a list method: no exception is raised for it,  *)
(* the remaining batches are still called, and what is returned is the     *)
(* plain concatenation of the lists received.                              *)
MismatchNotDetected ==
    \A t \in Tasks : (task[t].pc # "idle" /\ ~IsSingle(task[t].method)) =>
        \A k \in 1..Len(task[t].got) : Mismatched(t, k) =>
            /\ ~(task[t].pc = "raised" /\ Len(task[t].got) = k)
            /\ task[t].i >= k
            /\ (task[t].pc = "loop" /\ k < Len(task[t].chunked_data)
                    /\ task[t].i < Len(task[t].chunked_data)) => ENABLED Post(t)
            /\ task[t].pc = "returned" =>
                  /\ Len(task[t].sent) = Len(task[t].chunked_data)
                  /\ task[t].result = Received(t)

\* Batch 1 of 3 came back one vector short, the call returned all the same:
\* four vectors for five inputs, and the vector at position 2 is the one of
\* input 3.
MismatchNotDetectedWitness ==
    \E t \in Tasks :
        /\ task[t].pc = "returned"
        /\ ~IsSingle(task[t].method)
        /\ Len(task[t].inputs) = 5
        /\ Len(task[t].got) = 3
        /\ Mismatched(t, 1)
        /\ AllWellFormed(t) = FALSE
        /\ Len(task[t].result) = 4
        /\ task[t].result[2] = Vector(Prefix(task[t].method) \o task[t].inputs[3])


-----------------------------------------------------------------------------
(* Non-blocking invocations interleaved on one event loop: a second        *)
(* coroutine starts while the first is under way, and either runs         *)
(* whenever the other is suspended on its request; each request is         *)
(* answered on its own.                                                    *)

\* The lists the interleaved callers pass.
ConcLists == {l \in Lists : Len(l) <= MaxConcLen}

ConcInputsOf(m) == IF IsSingle(m) THEN InputsOf(m) ELSE ConcLists

\* The answers the transport may give to the request t awaits: any answer,
\* as long as the invocations under way met fewer than MaxConcFaults
\* ill-formed ones between them.
ConcAnswers(t) ==
    LET chunk == NextChunk(t)
        met   == task["t1"].faults + task["t2"].faults
    IN  {r \in Responses(chunk) : r = WellFormed(chunk) \/ met < MaxConcFaults}

\* A client built with the two prefixes set and no token, so that the
\* vectors of a query call and of a text call differ.
InitConc ==
    /\ Init
    /\ query_prefix = "Q: "
    /\ text_prefix = "T: "
    /\ arg_api_token = None
    /\ environ = [v \in {} |-> ""]

NextConc ==
    \/ \E t \in Tasks, m \in {n \in Methods : IsAsync(n)} :
          /\ t = "t2" => Active("t1")
          /\ \E inputs \in ConcInputsOf(m) : Call(t, m, inputs)
          /\ UNCHANGED stub
    \/ \E t \in Tasks : Post(t) /\ UNCHANGED stub
    \/ \E t \in Tasks : task[t].pc = "await" /\ \E r \in ConcAnswers(t) : Receive(t, r) /\ UNCHANGED stub
    \/ \E t \in Tasks : Return(t) /\ UNCHANGED stub

SpecConc == InitConc /\ [][NextConc]_vars

RECURSIVE AloneLoop(_, _, _, _)
\* The loop of _apost run with nothing else on the event loop, from its
\* k-th iteration with acc accumulated, on the answers given in order: where
\* it stands when the answers run out, what it holds and how many calls it made.
AloneLoop(chunks, answers, k, acc) ==
    IF k > Len(chunks)
    THEN [pc |-> "loop", embeddings |-> acc, calls |-> Len(chunks), error |-> ""]
    ELSE IF k > Len(answers)
    THEN [pc |-> "await", embeddings |-> acc, calls |-> k, error |-> ""]
    ELSE IF APostError(answers[k]) # ""
    THEN [pc |-> "raised", embeddings |-> acc, calls |-> k, error |-> APostError(answers[k])]
    ELSE AloneLoop(chunks, answers, k + 1, acc \o answers[k].body.embeddings)

\* The non-blocking method m run alone on inputs with the answers given.
Alone(m, inputs, answers) ==
    LET data == [j \in 1..Len(inputs) |-> Prefix(m) \o inputs[j]]
    IN  AloneLoop(_chunk(data), answers, 1, <<>>)

\* What the method hands its caller once the loop of the lone run a is over.
AloneResult(m, a) ==
    IF ~IsSingle(m) THEN [pc |-> "returned", result |-> a.embeddings, error |-> ""]
    ELSE IF a.embeddings = <<>> THEN [pc |-> "raised", result |-> <<>>, error |-> "IndexError"]
    ELSE [pc |-> "returned", result |-> a.embeddings[1], error |-> ""]

(* C12: non-blocking invocations interleaved at their suspension points    *)
(* each go the way they go alone with the same answers: the vectors an     *)
(* invocation holds, the calls it made, and the list or the exception it   *)
(* ends with are those of the lone run, whatever the other invocation      *)
(* fetched and however it ended.                                           *)
InterleavedAsAlone ==
    \A t \in Tasks : (task[t].pc # "idle" /\ IsAsync(task[t].method)) =>
        LET a == Alone(task[t].method, task[t].inputs, task[t].got)
        IN  /\ task[t].embeddings = a.embeddings
            /\ Len(task[t].sent) = a.calls \/ (task[t].pc = "loop" /\ Len(task[t].sent) = Len(task[t].got))
            /\ task[t].pc = "raised" /\ task[t].error # "IndexError" =>
                  a.pc = "raised" /\ a.error = task[t].error /\ task[t].result = <<>>
            /\ Done(t) /\ a.pc = "loop" =>
                  /\ task[t].pc = AloneResult(task[t].method, a).pc
                  /\ task[t].result = AloneResult(task[t].method, a).result
                  /\ task[t].error = AloneResult(task[t].method, a).error
            /\ Done(t) => a.pc \in {"loop", "raised"}
            /\ a.pc = "raised" => task[t].pc = "raised"

\* Both invocations are suspended on their second request, each with the
\* answer to its first one taken in.
InterleavedWitness ==
    /\ \A t \in Tasks : task[t].pc = "await" /\ Len(task[t].got) = 1 /\ task[t].embeddings # <<>>
    /\ Cardinality(inflight) = 2

\* One invocation has failed on its second request while the other, started
\* meanwhile, has returned its two batches.
InterleavedFailureWitness ==
    /\ task["t1"].pc = "raised" /\ Len(task["t1"].got) = 2
    /\ task["t2"].pc = "returned" /\ Len(task["t2"].got) = 2


-----------------------------------------------------------------------------
\* The caller's list of invocation t is left as it was passed: it stays the
\* same from step to step, and the prefixed list is a list of its own, the
\* prefix followed by the caller's strings.
InputsKept(t) ==
    /\ (task[t].pc # "idle" /\ task'[t].pc # "idle") => task'[t].inputs = task[t].inputs
    /\ task'[t].pc # "idle" =>
          /\ Len(task'[t].data) = Len(task'[t].inputs)
          /\ \A j \in 1..Len(task'[t].inputs) :
                task'[t].data[j] =
                    (IF IsQuery(task'[t].method) THEN query_prefix' ELSE text_prefix')
                        \o task'[t].inputs[j]

\* Every request in flight after the step goes where the client's first
\* request went, {INFERENCE_URL}/{model_id}, with the same bearer token.
SameAddressing ==
    \A f \in inflight' :
        /\ first_call' # None
        /\ Addressing(f.request) = first_call'[1]
        /\ f.request.url = INFERENCE_URL \o "/" \o model_id'

(* C13: no step of any method, blocking or not, ending well or not,        *)
(* changes the configuration (model id, normalize flag, token, prefixes)   *)
(* or the caller's list, and every request of the client is addressed to   *)
(* the URL and carries the bearer token of its first request.              *)
ConfigurationIsFrame ==
    [][ /\ config' = config
        /\ MAX_BATCH_SIZE' = MAX_BATCH_SIZE
        /\ first_call # None => first_call' = first_call
        /\ \A t \in Tasks : InputsKept(t)
        /\ SameAddressing ]_vars

\* An invocation has ended after posting requests and a later one, on a
\* list it prefixes, is under way: the first request's address is still the
\* client's URL and its token the client's token.
ConfigurationIsFrameWitness ==
    \E t \in Tasks :
        /\ task[t].pc = "loop"
        /\ task[t].sent = <<>>
        /\ task[t].inputs # <<>>
        /\ task[t].inputs # task[t].data
        /\ first_call # None
        /\ first_call[1].url = get_url
        /\ first_call[1].Authorization = "Bearer " \o Format(api_token)


-----------------------------------------------------------------------------
(* C14: a list method called on the empty list, of either kind and on      *)
(* either path, issues no request at all and returns the empty list        *)
(* without an exception, whatever the endpoint would answer and also for   *)
(* a client without a token.                                               *)
EmptyInputNoCall ==
    \A t \in Tasks : (task[t].pc # "idle" /\ task[t].inputs = <<>>) =>
        /\ task[t].sent = <<>>
        /\ task[t].got = <<>>
        /\ InFlightOf(t) = {}
        /\ ~ENABLED Post(t)
        /\ task[t].pc \in {"loop", "returned"}
        /\ task[t].error = ""
        /\ task[t].pc = "loop" => ENABLED Return(t)
        /\ task[t].pc = "returned" => task[t].result = <<>>

\* A non-blocking list method of a client without a token has returned the
\* empty list for the empty list.
EmptyInputWitness ==
    \E t \in Tasks :
        /\ task[t].pc = "returned"
        /\ IsAsync(task[t].method)
        /\ task[t].inputs = <<>>
        /\ task[t].result = <<>>
        /\ api_token = None


-----------------------------------------------------------------------------
(* Progress.  The interpreter runs a method that can take a step: the      *)
(* blocking path holds its thread, the event loop resumes a coroutine      *)
(* whose answer has arrived.  The transport answers every request, with a  *)
(* response or with a connection error.  Callers need not call again.      *)

Fairness ==
    \A t \in Tasks :
        /\ WF_vars(Post(t) /\ UNCHANGED stub)
        /\ WF_vars(task[t].pc = "await" /\ (\E r \in Answers(t) : Receive(t, r)) /\ UNCHANGED stub)
        /\ WF_vars(Return(t) /\ UNCHANGED stub)

\* A client built without a token (the token plays no part in progress).
InitLive ==
    /\ Init
    /\ arg_api_token = None
    /\ environ = [v \in {} |-> ""]

SpecLive == InitLive /\ [][Next]_vars /\ Fairness

\* The calls of invocation t so far are for its first batches, one each, and
\* no more than ceil(L/M) of them.
CallsBounded(t) ==
    /\ Len(task[t].sent) <= CeilDiv(Len(task[t].inputs), MAX_BATCH_SIZE)
    /\ \A j \in 1..Len(task[t].sent) : task[t].sent[j].json.inputs = task[t].chunked_data[j]
    /\ Len(task[t].got) <= Len(task[t].sent)

(* C15: when every request is answered, every invocation ends, with a      *)
(* value or with an exception, having issued at most ceil(L/M) calls and   *)
(* none for a batch it had sent before.                                    *)
EveryInvocationEnds ==
    /\ [](\A t \in Tasks : task[t].pc # "idle" => CallsBounded(t))
    /\ \A t \in Tasks : Active(t) ~> Done(t)

\* An invocation on three batches has ended with an exception at its third
\* call, after three calls.
EveryInvocationEndsWitness ==
    \E t \in Tasks :
        /\ task[t].pc = "raised"
        /\ Len(task[t].chunked_data) = 3
        /\ Len(task[t].sent) = 3
        /\ Len(task[t].got) = 3
        /\ InFlightOf(t) = {}

====
